---- MODULE Spec2Model ----
(***************************************************************************)
(* Model of the link maintenance script (check_urls.js and its earlier     *)
(* parallel and sequential variants): the URL classifier checkUrlStatus,   *)
(* the duplicate partition done in main, and the batch run of processPage  *)
(* under the p-limit concurrency cap.                                      *)
(*                                                                         *)
(* Strings are sequences of one-character strings, so that url + '/' and   *)
(* message.includes('404') are computed, not assumed.                      *)
(***************************************************************************)
EXTENDS Integers, Sequences, FiniteSets, TLC

\* ---------------------------------------------------------------- bounds
MaxUrlLen == 2
MaxMsgLen == 4
MaxDedupLen == 4
MaxDistinct == 6
MaxMixedLen == 3
PageSize == 2
MaxFaults == 1

\* ------------------------------------------------------- program constants
\* const limit = pLimit(5)
concurrency == 5

\* ---------------------------------------------------------------- strings
SeqsUpTo(S, n) == UNION {[1..k -> S] : k \in 0..n}

UrlChars == {"a", "/"}
MsgChars == {"4", "0", "x"}

\* JavaScript null / undefined, kept apart from the empty string
null == <<"null">>

Slash == <<"/">>
Pat404 == <<"4", "0", "4">>

\* String.prototype.includes
Includes(s, pat) ==
    \E i \in 1..(Len(s) - Len(pat) + 1) : SubSeq(s, i, i + Len(pat) - 1) = pat

\* !url : null, undefined and "" are falsy
FalsyNullOnly(url) == url = null
Falsy(url) == url = null \/ url = <<>>

\* ------------------------------------------------------------- classifier
\* STATUS_MAP: the values are the localized display labels written to the
\* store; here each label is named by its key.
STATUS_MAP ==
    [available |-> "available", redirect |-> "redirect",
     dead |-> "dead", error |-> "error"]

Labels == {STATUS_MAP.available, STATUS_MAP.redirect, STATUS_MAP.dead, STATUS_MAP.error}

\* if (finalUrl !== url && finalUrl !== url + '/')
IsRedirectExactOnly(url, finalUrl) == finalUrl # url
IsRedirect(url, finalUrl) == finalUrl # url /\ finalUrl # url \o Slash

\* if (status >= 200 && status < 400) ... else if (status === 404) ... else
StatusLabelNarrow(status) ==
    IF status >= 200 /\ status < 300 THEN STATUS_MAP.available
    ELSE IF status = 404 THEN STATUS_MAP.dead
    ELSE STATUS_MAP.error
StatusLabelWide(status) ==
    IF status >= 200 /\ status < 500 THEN STATUS_MAP.available
    ELSE IF status = 404 THEN STATUS_MAP.dead
    ELSE STATUS_MAP.error
StatusLabel(status) ==
    IF status >= 200 /\ status < 400 THEN STATUS_MAP.available
    ELSE IF status = 404 THEN STATUS_MAP.dead
    ELSE STATUS_MAP.error

\* the try block after page.goto returned a response
ResponseLabel(url, finalUrl, status) ==
    IF IsRedirect(url, finalUrl) THEN STATUS_MAP.redirect ELSE StatusLabel(status)

\* the catch block
CatchLabel(message) ==
    IF Includes(message, Pat404) THEN STATUS_MAP.dead ELSE STATUS_MAP.error

\* message of the TypeError raised by response.status() on a null response
\* ("Cannot read properties of null ..."): it does not mention 404
NullResponseMessage == <<"x">>

\* the finally block: page.close() is awaited only when page was assigned
AfterProbeNoFinally(pageAssigned) == "return"
AfterProbe(pageAssigned) == IF pageAssigned THEN "pageClose" ELSE "return"

Urls == SeqsUpTo(UrlChars, MaxUrlLen) \cup {null}
FinalUrls == SeqsUpTo(UrlChars, MaxUrlLen + 1)
Messages == SeqsUpTo(MsgChars, MaxMsgLen)
StatusCodes == {199, 200, 204, 299, 300, 301, 399, 400, 403, 404, 405, 500}

\* ------------------------------------------------------- duplicate check
\* A page of the store as main sees it: its id and properties.链接.url
Page(id, url) == [id |-> id, url |-> url]

\* if (url) : only pages with a link are grouped
GroupedAlways(url) == TRUE
Grouped(url) == ~Falsy(url)

\* the body of allPages.forEach: urlMap is a Map, kept here as the sequence
\* of its entries in insertion order
UrlMapAdd(urlMap, page) ==
    IF ~Grouped(page.url) THEN urlMap
    ELSE IF \E k \in 1..Len(urlMap) : urlMap[k].url = page.url
         THEN [k \in 1..Len(urlMap) |->
                 IF urlMap[k].url = page.url
                 THEN [url |-> page.url, pages |-> Append(urlMap[k].pages, page)]
                 ELSE urlMap[k]]
         ELSE Append(urlMap, [url |-> page.url, pages |-> <<page>>])

RECURSIVE UrlMapFrom(_, _)
UrlMapFrom(urlMap, allPages) ==
    IF allPages = <<>> THEN urlMap
    ELSE UrlMapFrom(UrlMapAdd(urlMap, Head(allPages)), Tail(allPages))

\* allPages.forEach(page => ...) starting from new Map()
UrlMapOf(allPages) == UrlMapFrom(<<>>, allPages)

\* uniquePagesToProcess.push(pages[0])
KeptLast(pages) == pages[Len(pages)]
Kept(pages) == pages[1]

\* pagesToDelete.push(...pages.slice(1))
Discarded(pages) == SubSeq(pages, 2, Len(pages))

\* for (const [url, pages] of urlMap.entries())
RECURSIVE UniquePagesToProcess(_)
UniquePagesToProcess(urlMap) ==
    IF urlMap = <<>> THEN <<>>
    ELSE <<Kept(Head(urlMap).pages)>> \o UniquePagesToProcess(Tail(urlMap))

RECURSIVE PagesToDelete(_)
PagesToDelete(urlMap) ==
    IF urlMap = <<>> THEN <<>>
    ELSE (IF Len(Head(urlMap).pages) > 1 THEN Discarded(Head(urlMap).pages) ELSE <<>>)
         \o PagesToDelete(Tail(urlMap))

DedupUrls == {<<>>, null, <<"a">>, <<"a", "/">>}

\* every store content of up to n pages over the given URLs, ids 1..k
PageLists(U, n) ==
    UNION {{[i \in 1..k |-> Page(i, f[i])] : f \in [1..k -> U]} : k \in 0..n}

VARIABLES
    \* one call of checkUrlStatus
    c_url, c_pc, c_page, c_kind, c_final, c_status, c_msg, c_ret,
    \* one call of the lightweight (HEAD, then GET) classifier
    l_url, l_pc, l_head, l_get, l_gets, l_ret,
    \* one run of the duplicate check of main
    d_allPages, d_pc, d_unique, d_delete,
    \* one run of main
    variant,      \* "dedup": check_urls.js; "parallel", "sequential": the two earlier scripts
    db,           \* the pages of the store, in query order
    status,       \* the store: page id -> value of its status property
    archived,     \* the store: ids of the archived pages
    pc,           \* the await main is suspended at
    mainlog,      \* how main left its try block
    nextCursor,   \* 0 for undefined / null
    allPages,
    browser,      \* "none" (undefined), "open", "closing" (close awaited), "closed"
    launches,     \* calls of playwright.chromium.launch()
    closes,       \* calls of browser.close()
    pages,        \* ids of the records whose browser page is open
    queue,        \* p-limit: the jobs not yet started, in order
    activeCount,  \* p-limit: the jobs started and not yet settled
    task,         \* page id -> where its deletePage / processPage job is
    faults,       \* the calls of the run that failed on their own (at most MaxFaults)
    tlabel        \* page id -> the value checkUrlStatus is about to return / returned

cvars == <<c_url, c_pc, c_page, c_kind, c_final, c_status, c_msg, c_ret>>
dvars == <<d_allPages, d_pc, d_unique, d_delete>>

mvars == <<variant, db, status, archived, pc, mainlog, nextCursor, allPages,
           browser, launches, closes, pages, queue, activeCount, task, tlabel, faults>>

lvars == <<l_url, l_pc, l_head, l_get, l_gets, l_ret>>

vars == <<cvars, dvars, mvars, lvars>>

\* ------------------------------------------ one run of the duplicate check
DInitIdle ==
    /\ d_allPages = <<>>
    /\ d_pc = "idle"
    /\ d_unique = <<>>
    /\ d_delete = <<>>

DInit ==
    /\ d_allPages \in PageLists(DedupUrls, MaxDedupLen)
    /\ d_pc = "fetched"
    /\ d_unique = <<>>
    /\ d_delete = <<>>

\* section 2 of main, up to the two lists being complete
DPartition ==
    /\ d_pc = "fetched"
    /\ d_unique' = UniquePagesToProcess(UrlMapOf(d_allPages))
    /\ d_delete' = PagesToDelete(UrlMapOf(d_allPages))
    /\ d_pc' = "partitioned"
    /\ UNCHANGED <<d_allPages, cvars, mvars, lvars>>

\* ------------------------------------------- one call of checkUrlStatus
CInitIdle ==
    /\ c_url = null
    /\ c_pc = "idle"
    /\ c_page = FALSE
    /\ c_kind = "none"
    /\ c_final = <<>>
    /\ c_status = 0
    /\ c_msg = <<>>
    /\ c_ret = "none"

CInit ==
    /\ c_url \in Urls
    /\ c_pc = "call"
    /\ c_page = FALSE
    /\ c_kind = "none"
    /\ c_final = <<>>
    /\ c_status = 0
    /\ c_msg = <<>>
    /\ c_ret = "none"

\* if (!url) return STATUS_MAP.error; else page = await browser.newPage(...)
CEnter ==
    /\ c_pc = "call"
    /\ IF Falsy(c_url)
       THEN c_pc' = "returned" /\ c_ret' = STATUS_MAP.error
       ELSE c_pc' = "newPage" /\ c_ret' = c_ret
    /\ UNCHANGED <<c_url, c_page, c_kind, c_final, c_status, c_msg>>
    /\ UNCHANGED <<dvars, mvars, lvars>>

\* browser.newPage resolves: page is assigned, page.goto is issued
CNewPageOk ==
    /\ c_pc = "newPage"
    /\ c_page' = TRUE
    /\ c_pc' = "goto"
    /\ UNCHANGED <<c_url, c_kind, c_final, c_status, c_msg, c_ret>>
    /\ UNCHANGED <<dvars, mvars, lvars>>

\* browser.newPage rejects: catch, then finally with page undefined
CNewPageThrow ==
    /\ c_pc = "newPage"
    /\ \E m \in Messages :
        /\ c_msg' = m
        /\ c_kind' = "newPageError"
        /\ c_ret' = CatchLabel(m)
        /\ c_pc' = (IF AfterProbe(c_page) = "pageClose" THEN "pageClose" ELSE "returned")
    /\ UNCHANGED <<c_url, c_page, c_final, c_status>>
    /\ UNCHANGED <<dvars, mvars, lvars>>

\* page.goto resolves with a response
CGotoResponse ==
    /\ c_pc = "goto"
    /\ \E f \in FinalUrls, s \in StatusCodes :
        /\ c_final' = f
        /\ c_status' = s
        /\ c_kind' = "response"
        /\ c_ret' = ResponseLabel(c_url, f, s)
    /\ c_pc' = (IF AfterProbe(c_page) = "pageClose" THEN "pageClose" ELSE "returned")
    /\ UNCHANGED <<c_url, c_page, c_msg>>
    /\ UNCHANGED <<dvars, mvars, lvars>>

\* page.goto resolves with null: response.status() raises a TypeError
CGotoNull ==
    /\ c_pc = "goto"
    /\ \E f \in FinalUrls : c_final' = f
    /\ c_kind' = "nullResponse"
    /\ c_msg' = NullResponseMessage
    /\ c_ret' = CatchLabel(NullResponseMessage)
    /\ c_pc' = (IF AfterProbe(c_page) = "pageClose" THEN "pageClose" ELSE "returned")
    /\ UNCHANGED <<c_url, c_page, c_status>>
    /\ UNCHANGED <<dvars, mvars, lvars>>

\* page.goto rejects (navigation error, 20 s timeout)
CGotoThrow ==
    /\ c_pc = "goto"
    /\ \E m \in Messages :
        /\ c_msg' = m
        /\ c_ret' = CatchLabel(m)
    /\ c_kind' = "gotoError"
    /\ c_pc' = (IF AfterProbe(c_page) = "pageClose" THEN "pageClose" ELSE "returned")
    /\ UNCHANGED <<c_url, c_page, c_final, c_status>>
    /\ UNCHANGED <<dvars, mvars, lvars>>

\* await page.close() resolves: the pending return value is returned
CPageCloseOk ==
    /\ c_pc = "pageClose"
    /\ c_pc' = "returned"
    /\ c_page' = FALSE
    /\ UNCHANGED <<c_url, c_kind, c_final, c_status, c_msg, c_ret>>
    /\ UNCHANGED <<dvars, mvars, lvars>>

\* await page.close() rejects inside finally: the rejection replaces the
\* pending return value and leaves checkUrlStatus
CPageCloseThrow ==
    /\ c_pc = "pageClose"
    /\ c_pc' = "thrown"
    /\ c_ret' = "none"
    /\ UNCHANGED <<c_url, c_page, c_kind, c_final, c_status, c_msg>>
    /\ UNCHANGED <<dvars, mvars, lvars>>

CNext ==
    \/ CEnter
    \/ CNewPageOk
    \/ CNewPageThrow
    \/ CGotoResponse
    \/ CGotoNull
    \/ CGotoThrow
    \/ CPageCloseOk
    \/ CPageCloseThrow

\* ------------------------------------------- lightweight classifier
\* The protocol-level probing of the script versions that use HTTP requests
\* instead of a browser, as the specification describes it: a HEAD request
\* and, unless its outcome is conclusive, one GET request.

\* what a request ends with: a final response with a success status after
\* the redirects were followed ("ok"), a response with any other status
\* ("status"), or no response at all (timeout, connection error)
NoOutcome == [kind |-> "none", final |-> <<>>, status |-> 0]
OkStatuses == {200, 204, 299}
FailStatuses == {300, 403, 404, 405, 500}
Outcomes ==
    [kind : {"ok"}, final : FinalUrls, status : OkStatuses]
      \cup [kind : {"status"}, final : {<<>>}, status : FailStatuses]
      \cup [kind : {"noResponse"}, final : {<<>>}, status : {0}]

\* a failure the server answered with 404 is conclusive
ConclusiveNever(o) == FALSE
Conclusive(o) == o.kind = "status" /\ o.status = 404

\* the label of a request that succeeded: the final URL is compared with
\* the requested one as it is
SuccessLabel(url, o) ==
    IF o.final # url THEN STATUS_MAP.redirect ELSE STATUS_MAP.available

\* the label of a request that failed and is not retried
FailureLabel(o) ==
    IF o.kind = "status" /\ o.status = 404 THEN STATUS_MAP.dead ELSE STATUS_MAP.error

LInitIdle ==
    /\ l_url = <<>>
    /\ l_pc = "idle"
    /\ l_head = NoOutcome
    /\ l_get = NoOutcome
    /\ l_gets = 0
    /\ l_ret = "none"

LInit ==
    /\ l_url \in Urls
    /\ l_pc = "call"
    /\ l_head = NoOutcome
    /\ l_get = NoOutcome
    /\ l_gets = 0
    /\ l_ret = "none"

\* an empty or null URL returns error with no request; otherwise the HEAD
\* request is issued
LEnter ==
    /\ l_pc = "call"
    /\ IF Falsy(l_url)
       THEN l_pc' = "returned" /\ l_ret' = STATUS_MAP.error
       ELSE l_pc' = "head" /\ l_ret' = l_ret
    /\ UNCHANGED <<l_url, l_head, l_get, l_gets>>
    /\ UNCHANGED <<cvars, dvars, mvars>>

\* the HEAD request succeeds: redirect or available
LHeadOk ==
    /\ l_pc = "head"
    /\ \E o \in Outcomes :
          /\ o.kind = "ok"
          /\ l_head' = o
          /\ l_ret' = SuccessLabel(l_url, o)
    /\ l_pc' = "returned"
    /\ UNCHANGED <<l_url, l_get, l_gets>>
    /\ UNCHANGED <<cvars, dvars, mvars>>

\* the HEAD request fails: dead at once for a 404 answer, otherwise the GET
\* request is issued
LHeadFail ==
    /\ l_pc = "head"
    /\ \E o \in Outcomes :
          /\ o.kind # "ok"
          /\ l_head' = o
          /\ IF Conclusive(o)
             THEN l_pc' = "returned" /\ l_ret' = FailureLabel(o) /\ l_gets' = l_gets
             ELSE l_pc' = "get" /\ l_ret' = l_ret /\ l_gets' = l_gets + 1
    /\ UNCHANGED <<l_url, l_get>>
    /\ UNCHANGED <<cvars, dvars, mvars>>

\* the GET request succeeds: the same rules as for HEAD
LGetOk ==
    /\ l_pc = "get"
    /\ \E o \in Outcomes :
          /\ o.kind = "ok"
          /\ l_get' = o
          /\ l_ret' = SuccessLabel(l_url, o)
    /\ l_pc' = "returned"
    /\ UNCHANGED <<l_url, l_head, l_gets>>
    /\ UNCHANGED <<cvars, dvars, mvars>>

\* the GET request fails too: dead for a 404 answer, error otherwise
LGetFail ==
    /\ l_pc = "get"
    /\ \E o \in Outcomes :
          /\ o.kind # "ok"
          /\ l_get' = o
          /\ l_ret' = FailureLabel(o)
    /\ l_pc' = "returned"
    /\ UNCHANGED <<l_url, l_head, l_gets>>
    /\ UNCHANGED <<cvars, dvars, mvars>>

LNext ==
    \/ LEnter
    \/ LHeadOk
    \/ LHeadFail
    \/ LGetOk
    \/ LGetFail

\* ------------------------------------------------------------ one run of main
\* The i-th distinct URL: "a", "aa", "aaa", ...
DistinctUrl(i) == [k \in 1..i |-> "a"]

\* The stores a run starts from: every store of up to MaxMixedLen pages over
\* DedupUrls (empty links and duplicates), and the stores of up to
\* MaxDistinct pages with pairwise distinct links (more jobs than the cap).
Databases ==
    PageLists(DedupUrls, MaxMixedLen)
      \cup {[i \in 1..n |-> Page(i, DistinctUrl(i))] : n \in 0..MaxDistinct}

\* The web the batch run probes. Every URL answers the same way each time:
\* by its length, the URL itself with a trailing slash and 200, the URL
\* itself with 404, or another URL with 200.
WebResponse(url) ==
    IF Len(url) % 3 = 1 THEN [final |-> url \o Slash, status |-> 200]
    ELSE IF Len(url) % 3 = 2 THEN [final |-> url, status |-> 404]
    ELSE [final |-> url \o <<"a">>, status |-> 200]

\* The messages of the errors a browser call of the batch run may throw
BatchMessages == {<<"x">>}

\* processPage: if (!url) { ...; return; }
SkipsNothing(url) == FALSE
SkipsPage(url) == Falsy(url)

\* p-limit: a job is taken from the queue while activeCount < concurrency
CanStartAlways(active) == TRUE
CanStart(active) == active < concurrency

CheckTerminal == {"done", "failed", "skipped", "rejected"}
DeleteTerminal == {"deleted", "deleteFailed"}
DeleteStates == {"delQueued", "deleting"} \cup DeleteTerminal
CheckStates == {"queued", "newPage", "goto", "pageClose", "update"} \cup CheckTerminal

\* The part of the state the main function and p-limit act on
Cur ==
    [pc |-> pc, mainlog |-> mainlog, browser |-> browser, launches |-> launches,
     closes |-> closes, queue |-> queue, activeCount |-> activeCount, task |-> task,
     tlabel |-> tlabel]

\* the next state has the fields of st (st is evaluated once)
Becomes(st) ==
    \E s \in {st} :
        /\ pc' = s.pc
        /\ mainlog' = s.mainlog
        /\ browser' = s.browser
        /\ launches' = s.launches
        /\ closes' = s.closes
        /\ queue' = s.queue
        /\ activeCount' = s.activeCount
        /\ task' = s.task
        /\ tlabel' = s.tlabel

\* p-limit runs a job: deletePage up to its await of notion.pages.update;
\* processPage up to its return (no link) or up to browser.newPage
StartJob(st, j) ==
    IF st.task[j] = "delQueued"
    THEN [st EXCEPT !.task[j] = "deleting", !.activeCount = @ + 1]
    ELSE IF SkipsPage(db[j].url)
    THEN [st EXCEPT !.task[j] = "skipped"]
    ELSE [st EXCEPT !.task[j] = "newPage", !.activeCount = @ + 1]

\* p-limit starts queued jobs, in order, while a slot is free
RECURSIVE Drain(_)
Drain(st) ==
    IF st.queue # <<>> /\ CanStart(st.activeCount)
    THEN Drain(StartJob([st EXCEPT !.queue = Tail(@)], Head(st.queue)))
    ELSE st

\* list.map(page => limit(() => job(page)))
RECURSIVE Enqueue(_, _, _)
Enqueue(st, list, kind) ==
    IF list = <<>> THEN st
    ELSE Enqueue([st EXCEPT !.task[Head(list).id] = kind,
                            !.queue = Append(@, Head(list).id)],
                 Tail(list), kind)

\* the finally block of main
FinallyNoClose(st) == [st EXCEPT !.pc = "done"]
Finally(st) ==
    IF st.browser # "none"
    THEN [st EXCEPT !.browser = "closing", !.closes = @ + 1, !.pc = "close"]
    ELSE [st EXCEPT !.pc = "done"]

\* section 3 of main in check_urls.js: the browser is launched only when
\* uniquePagesToProcess is not empty
AfterArchiveAlwaysLaunch(st, all) == [st EXCEPT !.pc = "launch", !.launches = @ + 1]
AfterArchive(st, all) ==
    IF Len(UniquePagesToProcess(UrlMapOf(all))) > 0
    THEN [st EXCEPT !.pc = "launch", !.launches = @ + 1]
    ELSE Finally([st EXCEPT !.mainlog = "complete"])

\* main resumes from await Promise.all(...) when every job is fulfilled or
\* as soon as one job is rejected
Resume(st, all) ==
    IF st.pc = "archive" /\ \A i \in DOMAIN st.task :
                               st.task[i] \in DeleteStates => st.task[i] \in DeleteTerminal
    THEN AfterArchive(st, all)
    ELSE IF st.pc = "check" /\ \E i \in DOMAIN st.task : st.task[i] = "rejected"
    THEN Finally([st EXCEPT !.mainlog = "caught"])
    ELSE IF st.pc = "check" /\ \A i \in DOMAIN st.task :
                               st.task[i] \in CheckStates => st.task[i] \in CheckTerminal
    THEN Finally([st EXCEPT !.mainlog = "complete"])
    ELSE st

\* const promises = list.map(page => limit(() => processPage(page, browser)));
\* await Promise.all(promises)
StartChecks(st, list, all) ==
    Resume(Drain(Enqueue([st EXCEPT !.pc = "check"], list, "queued")), all)

\* const deletePromises = pagesToDelete.map(page => limit(() => deletePage(page)));
\* await Promise.all(deletePromises)
StartDeletesNoAwait(st, list, all) ==
    AfterArchive(Drain(Enqueue([st EXCEPT !.pc = "archive"], list, "delQueued")), all)
StartDeletes(st, list, all) ==
    Resume(Drain(Enqueue([st EXCEPT !.pc = "archive"], list, "delQueued")), all)

\* the sequential script, for (const page of pages): the records of the
\* list the loop has not come to yet
SeqRest(st, all) == SelectSeq(all, LAMBDA p : st.task[p.id] = "idle")

\* the sequential script enters the loop body with the next record, up to
\* its first await that leaves main waiting: checkUrlStatus returns at once
\* for a record without link and updateNotionPage is called with the
\* label; otherwise browser.newPage is awaited. After the last record main
\* leaves the try block.
SeqLoop(st, all) ==
    IF SeqRest(st, all) = <<>> THEN Finally([st EXCEPT !.mainlog = "complete"])
    ELSE IF Falsy(Head(SeqRest(st, all)).url)
    THEN [st EXCEPT !.pc = "loop", !.task[Head(SeqRest(st, all)).id] = "update",
                    !.tlabel[Head(SeqRest(st, all)).id] = STATUS_MAP.error]
    ELSE [st EXCEPT !.pc = "loop", !.task[Head(SeqRest(st, all)).id] = "newPage"]

\* the sequential script after updateNotionPage returned or checkUrlStatus
\* rejected: the one second delay, or the catch block of main
SeqSettled(st) ==
    IF \E i \in DOMAIN st.task : st.task[i] = "rejected"
    THEN Finally([st EXCEPT !.mainlog = "caught"])
    ELSE [st EXCEPT !.pc = "delay"]

\* main after the records are fetched
AfterFetch(st, all) ==
    IF Len(all) = 0 THEN Finally([st EXCEPT !.mainlog = "empty"])
    ELSE IF variant = "sequential" THEN SeqLoop(st, all)
    ELSE IF variant = "parallel" THEN StartChecks(st, all, all)
    ELSE IF Len(PagesToDelete(UrlMapOf(all))) > 0
    THEN StartDeletes(st, PagesToDelete(UrlMapOf(all)), all)
    ELSE AfterArchive(st, all)

\* a job settles: p-limit frees its slot and starts the next job, and main
\* resumes if its Promise.all is settled by this
JobSettled(st) ==
    IF variant = "sequential" THEN SeqSettled(st)
    ELSE Resume(Drain([st EXCEPT !.activeCount = @ - 1]), allPages)

\* a call fails on its own account (store or browser trouble); the model
\* allows MaxFaults such failures in one run
Fault == faults < MaxFaults /\ faults' = faults + 1

MInitIdle ==
    /\ variant = "none"
    /\ db = <<>>
    /\ status = <<>>
    /\ archived = {}
    /\ pc = "idle"
    /\ mainlog = "none"
    /\ nextCursor = 0
    /\ allPages = <<>>
    /\ browser = "none"
    /\ launches = 0
    /\ closes = 0
    /\ pages = {}
    /\ queue = <<>>
    /\ activeCount = 0
    /\ task = <<>>
    /\ tlabel = <<>>
    /\ faults = 0

\* check_urls.js, and the two scripts before it: the one that runs
\* processPage under p-limit without duplicate check, and the one that
\* handles the records one after the other
Variants == {"dedup", "parallel", "sequential"}

\* main has run to its first await: the first query (check_urls.js) or the
\* browser launch (the earlier scripts)
MInit ==
    /\ variant \in Variants
    /\ db \in Databases
    /\ status = [i \in 1..Len(db) |-> "unchecked"]
    /\ archived = {}
    /\ pc = (IF variant = "dedup" THEN "query" ELSE "launch")
    /\ mainlog = "running"
    /\ nextCursor = 0
    /\ allPages = <<>>
    /\ browser = "none"
    /\ launches = (IF variant = "dedup" THEN 0 ELSE 1)
    /\ closes = 0
    /\ pages = {}
    /\ queue = <<>>
    /\ activeCount = 0
    /\ task = [i \in 1..Len(db) |-> "idle"]
    /\ tlabel = [i \in 1..Len(db) |-> "none"]
    /\ faults = 0

\* the store answers notion.databases.query({start_cursor}): at most
\* PageSize pages from the cursor on, and the cursor of the rest if any
QueryFromStart == IF nextCursor = 0 THEN 1 ELSE 1
QueryFrom == IF nextCursor = 0 THEN 1 ELSE nextCursor
QueryResults ==
    SubSeq(db, QueryFrom,
           IF QueryFrom + PageSize - 1 < Len(db) THEN QueryFrom + PageSize - 1 ELSE Len(db))
QueryNextCursor == IF QueryFrom + PageSize <= Len(db) THEN QueryFrom + PageSize ELSE 0

\* the store answers the one query of the sequential script, which has a
\* filter (status equals unchecked) and no start_cursor: at most PageSize
\* of the pages that pass the filter; the cursor in the answer is not read
Unchecked == SelectSeq(db, LAMBDA p : status[p.id] = "unchecked")
QueryFiltered ==
    SubSeq(Unchecked, 1, IF PageSize < Len(Unchecked) THEN PageSize ELSE Len(Unchecked))

\* await notion.databases.query(...) resolves: one pass of the do-while
\* loop and, after the last one, main up to its next await; in the
\* sequential script the only query
QueryOk ==
    /\ pc = "query"
    /\ IF variant = "sequential"
       THEN /\ allPages' = QueryFiltered
            /\ nextCursor' = nextCursor
            /\ Becomes(AfterFetch(Cur, QueryFiltered))
       ELSE /\ allPages' = allPages \o QueryResults
            /\ nextCursor' = QueryNextCursor
            /\ IF QueryNextCursor # 0
               THEN Becomes(Cur)
               ELSE Becomes(AfterFetch(Cur, allPages \o QueryResults))
    /\ UNCHANGED <<variant, db, status, archived, pages, faults, cvars, dvars, lvars>>

\* await notion.databases.query(...) rejects: catch, then finally
QueryThrow ==
    /\ pc = "query"
    /\ Fault
    /\ Becomes(Finally([Cur EXCEPT !.mainlog = "caught"]))
    /\ UNCHANGED <<variant, db, status, archived, nextCursor, allPages, pages, cvars, dvars, lvars>>

\* await playwright.chromium.launch() resolves
LaunchOk ==
    /\ pc = "launch"
    /\ IF variant = "dedup"
       THEN Becomes(StartChecks([Cur EXCEPT !.browser = "open"],
                                UniquePagesToProcess(UrlMapOf(allPages)), allPages))
       ELSE Becomes([Cur EXCEPT !.browser = "open", !.pc = "query"])
    /\ UNCHANGED <<variant, db, status, archived, nextCursor, allPages, pages,
                   faults, cvars, dvars, lvars>>

\* await playwright.chromium.launch() rejects: inside the try block in
\* check_urls.js, before it in the earlier scripts (main itself rejects)
LaunchThrow ==
    /\ pc = "launch"
    /\ Fault
    /\ IF variant = "dedup"
       THEN Becomes(Finally([Cur EXCEPT !.mainlog = "caught"]))
       ELSE Becomes([Cur EXCEPT !.mainlog = "crashed", !.pc = "done"])
    /\ UNCHANGED <<variant, db, status, archived, nextCursor, allPages, pages, cvars, dvars, lvars>>

\* deletePage: await notion.pages.update({archived: true}) resolves
ArchiveOk(i) ==
    /\ task[i] = "deleting"
    /\ archived' = archived \cup {i}
    /\ Becomes(JobSettled([Cur EXCEPT !.task[i] = "deleted"]))
    /\ UNCHANGED <<variant, db, status, nextCursor, allPages, pages, faults, cvars, dvars, lvars>>

\* deletePage: the update rejects and is caught and logged
ArchiveThrow(i) ==
    /\ task[i] = "deleting"
    /\ Fault
    /\ Becomes(JobSettled([Cur EXCEPT !.task[i] = "deleteFailed"]))
    /\ UNCHANGED <<variant, db, status, archived, nextCursor, allPages, pages, cvars, dvars, lvars>>

\* checkUrlStatus: browser.newPage resolves, page.goto is issued
NewPageOk(i) ==
    /\ task[i] = "newPage"
    /\ browser \in {"open", "closing"}
    /\ pages' = pages \cup {i}
    /\ Becomes([Cur EXCEPT !.task[i] = "goto"])
    /\ UNCHANGED <<variant, db, status, archived, nextCursor, allPages, faults, cvars, dvars, lvars>>

\* where processPage is after checkUrlStatus left its try/catch
AfterProbeState(pageAssigned) ==
    IF AfterProbe(pageAssigned) = "pageClose" THEN "pageClose" ELSE "update"

\* checkUrlStatus: browser.newPage rejects; page is undefined, the label of
\* the catch block is returned and processPage issues the status update
NewPageThrow(i) ==
    /\ task[i] = "newPage"
    /\ IF browser = "open" THEN Fault ELSE UNCHANGED faults
    /\ \E m \in BatchMessages :
          Becomes([Cur EXCEPT !.tlabel[i] = CatchLabel(m),
                              !.task[i] = AfterProbeState(FALSE)])
    /\ UNCHANGED <<variant, db, status, archived, nextCursor, allPages, pages, cvars, dvars, lvars>>

\* checkUrlStatus: page.goto resolves with a response; page.close is issued
GotoResponse(i) ==
    /\ task[i] = "goto"
    /\ i \in pages
    /\ Becomes([Cur EXCEPT !.tlabel[i] =
                               ResponseLabel(db[i].url, WebResponse(db[i].url).final,
                                             WebResponse(db[i].url).status),
                           !.task[i] = AfterProbeState(TRUE)])
    /\ UNCHANGED <<variant, db, status, archived, nextCursor, allPages, pages, faults,
                   cvars, dvars, lvars>>

\* checkUrlStatus: page.goto rejects (error, timeout, page gone with the
\* browser); page.close is issued
GotoThrow(i) ==
    /\ task[i] = "goto"
    /\ IF i \in pages THEN Fault ELSE UNCHANGED faults
    /\ \E m \in BatchMessages :
          Becomes([Cur EXCEPT !.tlabel[i] = CatchLabel(m),
                              !.task[i] = AfterProbeState(TRUE)])
    /\ UNCHANGED <<variant, db, status, archived, nextCursor, allPages, pages, cvars, dvars, lvars>>

\* checkUrlStatus: page.close resolves and the label is returned;
\* processPage issues notion.pages.update with it
PageCloseOk(i) ==
    /\ task[i] = "pageClose"
    /\ pages' = pages \ {i}
    /\ Becomes([Cur EXCEPT !.task[i] = "update"])
    /\ UNCHANGED <<variant, db, status, archived, nextCursor, allPages, faults, cvars, dvars, lvars>>

\* checkUrlStatus: page.close rejects inside finally; the rejection leaves
\* checkUrlStatus and processPage (its await is outside the try block), so
\* the job is rejected. Whether the page is still open is not known.
PageCloseThrow(i) ==
    /\ task[i] = "pageClose"
    /\ Fault
    /\ \E gone \in BOOLEAN : pages' = (IF gone THEN pages \ {i} ELSE pages)
    /\ Becomes(JobSettled([Cur EXCEPT !.task[i] = "rejected", !.tlabel[i] = "none"]))
    /\ UNCHANGED <<variant, db, status, archived, nextCursor, allPages, cvars, dvars, lvars>>

\* processPage: what a rejected notion.pages.update leads to (try/catch)
UpdateFailureUncaught == "rejected"
UpdateFailure == "failed"

\* processPage: the label notion.pages.update is called with
WrittenLabelOfFirst(i) == tlabel[CHOOSE j \in DOMAIN tlabel : tlabel[j] # "none"]
WrittenLabel(i) == tlabel[i]

\* processPage: await notion.pages.update(...) resolves
UpdateOk(i) ==
    /\ task[i] = "update"
    /\ status' = [status EXCEPT ![i] = WrittenLabel(i)]
    /\ Becomes(JobSettled([Cur EXCEPT !.task[i] = "done", !.tlabel[i] = "none"]))
    /\ UNCHANGED <<variant, db, archived, nextCursor, allPages, pages, faults, cvars, dvars, lvars>>

\* processPage: await notion.pages.update(...) rejects; caught and logged
UpdateThrow(i) ==
    /\ task[i] = "update"
    /\ Fault
    /\ Becomes(JobSettled([Cur EXCEPT !.task[i] = UpdateFailure, !.tlabel[i] = "none"]))
    /\ UNCHANGED <<variant, db, status, archived, nextCursor, allPages, pages, cvars, dvars, lvars>>

\* the sequential script: the timer of the one second delay fires and the
\* loop goes on
DelayOver ==
    /\ pc = "delay"
    /\ Becomes(SeqLoop(Cur, allPages))
    /\ UNCHANGED <<variant, db, status, archived, nextCursor, allPages, pages, faults,
                   cvars, dvars, lvars>>

\* the exit code of the node process: the scripts set none and call
\* main() with no handler attached, so the code is 0 unless main rejects
ExitCode == IF mainlog = "crashed" THEN 1 ELSE 0

\* await browser.close() resolves: the browser and every page of it are gone
BrowserCloseOk ==
    /\ pc = "close"
    /\ browser = "closing"
    /\ pages' = {}
    /\ Becomes([Cur EXCEPT !.browser = "closed", !.pc = "done"])
    /\ UNCHANGED <<variant, db, status, archived, nextCursor, allPages, faults, cvars, dvars, lvars>>

MNext ==
    \/ QueryOk
    \/ QueryThrow
    \/ LaunchOk
    \/ LaunchThrow
    \/ \E i \in 1..Len(db) : ArchiveOk(i)
    \/ \E i \in 1..Len(db) : ArchiveThrow(i)
    \/ \E i \in 1..Len(db) : NewPageOk(i)
    \/ \E i \in 1..Len(db) : NewPageThrow(i)
    \/ \E i \in 1..Len(db) : GotoResponse(i)
    \/ \E i \in 1..Len(db) : GotoThrow(i)
    \/ \E i \in 1..Len(db) : PageCloseOk(i)
    \/ \E i \in 1..Len(db) : PageCloseThrow(i)
    \/ \E i \in 1..Len(db) : UpdateOk(i)
    \/ \E i \in 1..Len(db) : UpdateThrow(i)
    \/ DelayOver
    \/ BrowserCloseOk

\* ---------------------------------------------------------- specifications
Init == MInit /\ CInitIdle /\ DInitIdle /\ LInitIdle

Next == MNext

Spec == Init /\ [][Next]_vars

\* the runs over the stores with empty links and duplicates only
InitMixed == Init /\ db \in PageLists(DedupUrls, MaxMixedLen)

SpecMixed == InitMixed /\ [][Next]_vars

\* every call that is awaited returns or throws in the end and every timer
\* fires: while a step of the run is possible, one is taken
SpecLive == InitMixed /\ [][Next]_vars /\ WF_vars(Next)

InitClassify == CInit /\ DInitIdle /\ MInitIdle /\ LInitIdle

SpecClassify == InitClassify /\ [][CNext]_vars

InitDedup == DInit /\ CInitIdle /\ MInitIdle /\ LInitIdle

SpecDedup == InitDedup /\ [][DPartition]_vars

InitLight == LInit /\ CInitIdle /\ DInitIdle /\ MInitIdle

SpecLight == InitLight /\ [][LNext]_vars

\* ------------------------------------------------- duplicate check: claims
Positions(seq, url) == {i \in 1..Len(seq) : seq[i].url = url}
Occurrences(seq, page) == Cardinality({i \in 1..Len(seq) : seq[i] = page})
InputUrls == {d_allPages[i].url : i \in 1..Len(d_allPages)}
FirstPosition(url) ==
    CHOOSE i \in Positions(d_allPages, url) : \A j \in Positions(d_allPages, url) : i <= j

\* C3: a non-empty URL that occurs k times in the input has exactly one page
\* in uniquePagesToProcess and k-1 pages in pagesToDelete; the kept page is
\* the earliest input page with that URL, and the kept pages are in order of
\* first occurrence of their URL.
C3_FirstOfEachUrlKept ==
    d_pc = "partitioned" =>
        /\ \A u \in InputUrls : ~Falsy(u) =>
            /\ Cardinality(Positions(d_unique, u)) = 1
            /\ Cardinality(Positions(d_delete, u))
                 = Cardinality(Positions(d_allPages, u)) - 1
            /\ \A i \in Positions(d_unique, u) :
                 d_unique[i] = d_allPages[FirstPosition(u)]
        /\ \A i, j \in 1..Len(d_unique) :
             i < j => FirstPosition(d_unique[i].url) < FirstPosition(d_unique[j].url)

C3_Witness ==
    /\ d_pc = "partitioned"
    /\ d_allPages = <<Page(1, <<"a">>), Page(2, <<"a">>), Page(3, <<"a">>),
                      Page(4, <<"a", "/">>)>>
    /\ d_unique = <<Page(1, <<"a">>), Page(4, <<"a", "/">>)>>
    /\ d_delete = <<Page(2, <<"a">>), Page(3, <<"a">>)>>

\* C4 as claimed: the two lists are disjoint, together they hold every input
\* page exactly once, and a page without URL is in uniquePagesToProcess.
C4_EveryInputPageOnce ==
    d_pc = "partitioned" =>
        /\ \A i \in 1..Len(d_unique), j \in 1..Len(d_delete) : d_unique[i] # d_delete[j]
        /\ \A k \in 1..Len(d_allPages) :
             Occurrences(d_unique \o d_delete, d_allPages[k]) = 1
        /\ \A k \in 1..Len(d_allPages) :
             Falsy(d_allPages[k].url) => Occurrences(d_unique, d_allPages[k]) = 1

\* C4 as amended: the two lists are disjoint, together they hold every input
\* page that has a URL exactly once and no other page; a page whose URL is
\* empty or null is in neither list.
C4_EveryLinkedPageOnce ==
    d_pc = "partitioned" =>
        /\ \A i \in 1..Len(d_unique), j \in 1..Len(d_delete) : d_unique[i] # d_delete[j]
        /\ \A k \in 1..Len(d_allPages) :
             Occurrences(d_unique \o d_delete, d_allPages[k])
               = (IF Falsy(d_allPages[k].url) THEN 0 ELSE 1)
        /\ \A k \in 1..Len(d_unique \o d_delete) :
             Occurrences(d_allPages, (d_unique \o d_delete)[k]) = 1

C4_Witness ==
    /\ d_pc = "partitioned"
    /\ \E i, j \in 1..Len(d_allPages) :
         d_allPages[i].url = <<>> /\ d_allPages[j].url = null
    /\ Len(d_unique) = 1
    /\ Len(d_delete) = 1

\* ----------------------------------------------------- classifier: claims
ThrownKinds == {"newPageError", "gotoError", "nullResponse"}

\* C5 as claimed: with a response, the call returns redirect exactly when the
\* final URL is neither the requested URL nor differs from it by one
\* trailing slash in either direction.
C5_RedirectIffNotSlashEquivalent ==
    (c_pc = "returned" /\ c_kind = "response") =>
        (c_ret = STATUS_MAP.redirect
           <=> ~(\/ c_final = c_url
                 \/ c_final = Append(c_url, "/")
                 \/ c_url = Append(c_final, "/")))

\* C5 as amended: with a response, the call returns redirect exactly when the
\* final URL is neither the requested URL nor the requested URL followed by
\* '/'; a final URL that is the requested URL with its trailing slash removed
\* is a redirect. A redirect is never reported as available.
C5_RedirectIffNotUrlOrUrlSlash ==
    (c_pc = "returned" /\ c_kind = "response") =>
        /\ c_ret = STATUS_MAP.redirect
             <=> (c_final # c_url /\ c_final # Append(c_url, "/"))
        /\ (c_final # c_url /\ c_final # Append(c_url, "/"))
             => c_ret # STATUS_MAP.available

C5_Witness ==
    /\ c_pc = "returned"
    /\ c_kind = "response"
    /\ c_url = Append(c_final, "/")
    /\ c_status = 200
    /\ c_ret = STATUS_MAP.redirect

\* C6: with a response whose final URL equals the requested URL, the call
\* returns available for a status in [200,400), dead for 404 and error for
\* every other status.
C6_StatusMapping ==
    (c_pc = "returned" /\ c_kind = "response" /\ c_final = c_url) =>
        /\ (c_status >= 200 /\ c_status < 400) => c_ret = STATUS_MAP.available
        /\ c_status = 404 => c_ret = STATUS_MAP.dead
        /\ (c_status < 200 \/ (c_status >= 400 /\ c_status # 404))
             => c_ret = STATUS_MAP.error

C6_Witness ==
    /\ c_pc = "returned"
    /\ c_kind = "response"
    /\ c_final = c_url
    /\ c_status = 301
    /\ c_ret = STATUS_MAP.available

\* C7 as claimed: a response with status 404 gives dead, whatever the final URL.
C7_Status404AlwaysDead ==
    (c_pc = "returned" /\ c_kind = "response" /\ c_status = 404) =>
        c_ret = STATUS_MAP.dead

\* C7 as amended: a response with status 404 gives dead when the final URL is
\* the requested URL or the requested URL followed by '/', and redirect for
\* every other final URL.
C7_Status404DeadUnlessRedirect ==
    (c_pc = "returned" /\ c_kind = "response" /\ c_status = 404) =>
        c_ret = (IF c_final = c_url \/ c_final = Append(c_url, "/")
                 THEN STATUS_MAP.dead ELSE STATUS_MAP.redirect)

C7_Witness ==
    /\ c_pc = "returned"
    /\ c_kind = "response"
    /\ c_status = 404
    /\ c_final = Append(c_url, "/")
    /\ c_ret = STATUS_MAP.dead

\* C8: the call never ends by throwing: it returns one of the four labels,
\* dead for a thrown error whose message mentions 404 and error for any
\* other thrown error.
C8_NeverThrows ==
    /\ c_pc # "thrown"
    /\ c_pc = "returned" =>
        /\ c_ret \in Labels
        /\ c_kind \in ThrownKinds =>
             c_ret = (IF Includes(c_msg, Pat404) THEN STATUS_MAP.dead
                      ELSE STATUS_MAP.error)

\* ------------------------------------------------------ batch run: claims
InFlightStates == {"newPage", "goto", "pageClose", "update"}
ProbeStates == {"newPage", "goto", "pageClose"}
Running == {i \in DOMAIN task : task[i] \in InFlightStates}
Probing == {i \in DOMAIN task : task[i] \in ProbeStates}

\* C1: the processPage jobs started and not yet finished are never more than
\* the cap, and a queued job starts only in a step in which a running job
\* finishes.
C1_AtMostConcurrencyRunning ==
    /\ [](Cardinality(Running) <= concurrency)
    /\ [][\A i \in DOMAIN task :
            (task[i] = "queued" /\ task'[i] # "queued") =>
                \E j \in DOMAIN task :
                    task[j] \in InFlightStates /\ task'[j] \in CheckTerminal]_vars

C1_Witness ==
    /\ Cardinality(Running) = concurrency
    /\ \E i \in Running : i > concurrency
    /\ \E i \in DOMAIN task : task[i] \in CheckTerminal

\* C2: once main is past await Promise.all(checkPromises), every record
\* handed to the batch is skipped, processed, or failed and logged.
C2_ResumesOnlyWhenAllTerminal ==
    (pc \in {"close", "done"} /\ mainlog \in {"complete", "caught"}) =>
        \A i \in DOMAIN task : task[i] \in CheckStates => task[i] \in CheckTerminal

\* C9: a probe that has returned its label has no page open, whichever way
\* it left the try block; a page is open only for a probe between
\* browser.newPage and the end of page.close (or one whose page.close
\* itself failed); when the run is over no page is open.
C9_PageClosedBeforeProbeReturns ==
    /\ \A i \in DOMAIN task : task[i] \in {"update", "done", "failed"} => i \notin pages
    /\ \A i \in pages : task[i] \in {"goto", "pageClose", "rejected"}
    /\ Cardinality({i \in pages : task[i] # "rejected"}) <= Cardinality(Probing)
    /\ pc = "done" => pages = {}

C9_Witness ==
    /\ \E i \in DOMAIN task :
         task[i] = "update" /\ tlabel[i] = STATUS_MAP.dead /\ i \notin pages
    /\ \E i \in DOMAIN task :
         task[i] = "update" /\ tlabel[i] = STATUS_MAP.error /\ i \notin pages
    /\ pages # {}

AnyRejected == \E i \in DOMAIN task : task[i] = "rejected"

\* C11: the process ends with exit code 0 when the run completes and with a
\* non-zero exit code when main ends through a top-level failure (a failed
\* query or launch, no record task involved); after such a failure no probe
\* or write is under way or queued.
C11_ExitCodeTellsFatalFailure ==
    pc = "done" =>
        /\ mainlog \in {"empty", "complete"} => ExitCode = 0
        /\ (mainlog = "caught" /\ ~AnyRejected) =>
              /\ ExitCode # 0
              /\ \A i \in DOMAIN task : task[i] \notin InFlightStates \cup {"queued"}

NoLink == {i \in DOMAIN task : db[i].url = null \/ db[i].url = <<>>}

\* C12 as claimed: in every variant a record without link is never probed,
\* no status write is sent for it and its stored status stays as it was.
C12_NoLinkNeverProbedNorWritten ==
    \A i \in NoLink :
        /\ task[i] \notin ProbeStates \cup {"update"}
        /\ i \notin pages
        /\ status[i] = "unchecked"

\* C12 as amended: a record without link is never probed in any variant. In
\* check_urls.js and the parallel script no status write is sent for it and
\* its stored status stays as it was; the sequential script sends a status
\* write with the label error for it.
C12_NoLinkSkippedOrWrittenError ==
    \A i \in NoLink :
        /\ task[i] \notin ProbeStates
        /\ i \notin pages
        /\ variant \in {"dedup", "parallel"} =>
              /\ task[i] \in {"idle", "queued", "skipped"}
              /\ status[i] = "unchecked"
        /\ variant = "sequential" =>
              /\ task[i] \in {"idle", "update", "done", "failed"}
              /\ task[i] = "update" => tlabel[i] = STATUS_MAP.error
              /\ status[i] \in {"unchecked", STATUS_MAP.error}
              /\ task[i] = "done" => status[i] = STATUS_MAP.error

C12_Witness ==
    /\ variant = "parallel"
    /\ pc = "done"
    /\ mainlog = "complete"
    /\ \E i \in NoLink : task[i] = "skipped" /\ status[i] = "unchecked"
    /\ \E i \in DOMAIN task : task[i] = "done"

\* C13: checkUrlStatus called with null or with the empty string returns
\* error as its first step: it never awaits browser.newPage or page.goto,
\* no page is assigned and no outcome of a browser call is seen.
C13_NoLinkReturnsErrorAtOnce ==
    (c_pc # "idle" /\ (c_url = null \/ c_url = <<>>)) =>
        /\ c_pc \in {"call", "returned"}
        /\ ~c_page
        /\ c_kind = "none"
        /\ c_pc = "returned" => c_ret = STATUS_MAP.error

C13_Witness ==
    /\ c_url = <<>>
    /\ c_pc = "returned"
    /\ c_ret = STATUS_MAP.error
    /\ ~c_page

Linked(seq) == {i \in 1..Len(seq) : seq[i].url # null /\ seq[i].url # <<>>}

\* C14 as claimed: in every variant the browser is launched at most once,
\* and only when the store holds a record with a link; a run whose query
\* fails has not launched it.
C14_LaunchedOnlyForAProbe ==
    /\ [](launches <= 1)
    /\ [](launches > 0 => Linked(db) # {})
    /\ [][(pc = "query" /\ mainlog' = "caught") => launches' = 0]_vars

\* C14 as amended: in every variant the browser is launched at most once.
\* check_urls.js launches it only after the last page of records is
\* fetched and only when a fetched record has a link, so not when the
\* store is empty or a query fails. The two earlier scripts launch it
\* before their first query, whatever the store holds.
C14_LaunchedOnlyForAProbeInDedup ==
    /\ [](launches <= 1)
    /\ [](variant = "dedup" =>
            (launches > 0 => (allPages = db /\ Linked(allPages) # {})))
    /\ [](variant \in {"parallel", "sequential"} => launches = 1)
    /\ [][(variant = "dedup" /\ pc = "query" /\ mainlog' = "caught")
            => (launches' = 0 /\ pc' = "done" /\ browser' = "none")]_vars

C14_Witness ==
    /\ variant = "dedup"
    /\ launches = 1
    /\ browser = "closed"
    /\ mainlog = "complete"
    /\ NoLink # {}
    /\ archived # {}

IsPrefix(seq, whole) ==
    /\ Len(seq) <= Len(whole)
    /\ \A i \in 1..Len(seq) : seq[i] = whole[i]

NothingStarted ==
    /\ \A i \in DOMAIN task : task[i] = "idle"
    /\ archived = {}
    /\ pages = {}
    /\ queue = <<>>

\* C15 as claimed: in every variant each query passes the cursor of the
\* previous answer, the list is at any time the pages fetched so far in
\* store order, nothing is archived or probed while a query is awaited,
\* and once an archive or a probe has started, or the run has completed,
\* the list holds every record of the store exactly once.
C15_ListHoldsEveryPage ==
    /\ IsPrefix(allPages, db)
    /\ (pc = "query" /\ nextCursor # 0) => nextCursor = Len(allPages) + 1
    /\ pc = "query" => NothingStarted
    /\ (~NothingStarted \/ mainlog \in {"empty", "complete"}) => allPages = db

\* C15 as amended: the above holds in check_urls.js and in the parallel
\* script. The sequential script sends one query without cursor: its list
\* is the first page of the answer, at most PageSize records, and the
\* records after these are never handled.
C15_ListHoldsEveryPageUnlessSequential ==
    /\ IsPrefix(allPages, db)
    /\ pc = "query" => NothingStarted
    /\ variant \in {"dedup", "parallel"} =>
          /\ (pc = "query" /\ nextCursor # 0) => nextCursor = Len(allPages) + 1
          /\ (~NothingStarted \/ mainlog \in {"empty", "complete"}) => allPages = db
    /\ variant = "sequential" =>
          /\ nextCursor = 0
          /\ Len(allPages) <= PageSize
          /\ (~NothingStarted \/ mainlog \in {"empty", "complete"}) =>
                allPages = SubSeq(db, 1, IF PageSize < Len(db) THEN PageSize ELSE Len(db))
          /\ \A i \in DOMAIN task : i > PageSize => task[i] = "idle"

C15_Witness ==
    /\ variant = "dedup"
    /\ Len(db) > PageSize
    /\ allPages = db
    /\ mainlog = "complete"
    /\ \E i \in DOMAIN task : i > PageSize /\ task[i] = "done"

\* ------------------------------------------- lightweight classifier: claims
\* C16: a HEAD request that failed otherwise than with a 404 answer is
\* followed by exactly one GET request, and no label is returned before
\* that request has ended; a HEAD request answered with 404 gives dead with
\* no GET request; no call issues more than one GET request.
C16_OneGetRetryUnless404 ==
    /\ l_gets <= 1
    /\ l_pc = "get" => (l_gets = 1 /\ l_ret = "none")
    /\ (l_pc \in {"get", "returned"} /\ l_head.kind \in {"status", "noResponse"}
          /\ ~(l_head.kind = "status" /\ l_head.status = 404)) => l_gets = 1
    /\ (l_pc = "returned" /\ l_gets = 1) => l_get # NoOutcome
    /\ (l_head.kind = "status" /\ l_head.status = 404) =>
          /\ l_pc = "returned"
          /\ l_gets = 0
          /\ l_get = NoOutcome
          /\ l_ret = STATUS_MAP.dead

C16_Witness ==
    /\ l_pc = "returned"
    /\ l_head.kind = "status"
    /\ l_head.status = 403
    /\ l_gets = 1
    /\ l_get.kind = "ok"
    /\ l_get.status = 200
    /\ l_get.final = l_url
    /\ l_ret = STATUS_MAP.available

\* ------------------------------------------------- phases of a run: claims
Archiving == {i \in DOMAIN task : task[i] \in {"delQueued", "deleting"}}

\* C17: while an archive request is queued or awaited, the browser is not
\* launched, no probe and no status write is under way or done; main leaves
\* the archive phase only when every archive request has succeeded or has
\* failed and been logged, and it then goes on to launch the browser
\* whether or not a request failed.
C17_ArchiveBeforeProbe ==
    /\ []((Archiving # {} \/ pc = "archive") =>
            /\ \A j \in DOMAIN task : task[j] \notin CheckStates
            /\ \A j \in DOMAIN status : status[j] = "unchecked"
            /\ launches = 0
            /\ browser = "none"
            /\ pages = {})
    /\ [][(pc = "archive" /\ pc' # "archive") =>
            /\ pc' = "launch"
            /\ mainlog' = "running"
            /\ \A i \in DOMAIN task :
                  task[i] \in DeleteStates => task'[i] \in DeleteTerminal]_vars

C17_Witness ==
    /\ \E i \in DOMAIN task : task[i] = "deleteFailed"
    /\ \E i \in DOMAIN task : task[i] = "deleted"
    /\ \E i \in DOMAIN task : task[i] = "done"
    /\ mainlog = "complete"

\* how far a record's processPage has come
Rank(t) ==
    CASE t = "queued" -> 1
      [] t = "newPage" -> 2
      [] t = "goto" -> 3
      [] t = "pageClose" -> 4
      [] t = "update" -> 5
      [] t \in CheckTerminal -> 6
      [] OTHER -> 0

\* the labels a probe of this URL can return: the one for the answer of
\* the web, or the one for a failed browser call
OwnLabels(url) ==
    {ResponseLabel(url, WebResponse(url).final, WebResponse(url).status)}
      \cup {CatchLabel(m) : m \in BatchMessages}

\* the records of the fetched list with a link no earlier record has
FirstLinked ==
    {i \in Linked(allPages) : \A j \in Linked(allPages) : j < i => db[j].url # db[i].url}

\* C18: a record with a link goes through newPage, goto, page.close and
\* the status update in this order and through each at most once, so it is
\* probed at most once and written at most once, the write being issued
\* only when the probe has returned; the label sent and stored is one its
\* own probe can return; in a run that completes normally every first
\* record of a link has been probed and its write has ended.
C18_OneProbeThenOneWriteOfOwnLabel ==
    /\ [][\A i \in Linked(db) :
            /\ (task'[i] # task[i] /\ task'[i] \notin DeleteStates) =>
                  Rank(task'[i]) > Rank(task[i])
            /\ (task'[i] = "update" /\ task[i] # "update") =>
                  task[i] \in {"newPage", "pageClose"}
            /\ status'[i] # status[i] =>
                  /\ task[i] = "update"
                  /\ task'[i] = "done"
                  /\ status[i] = "unchecked"
                  /\ status'[i] = tlabel[i]]_vars
    /\ [](\A i \in Linked(db) :
            /\ task[i] = "update" => (tlabel[i] \in OwnLabels(db[i].url) /\ i \notin pages)
            /\ status[i] # "unchecked" =>
                  (task[i] = "done" /\ status[i] \in OwnLabels(db[i].url)))
    /\ []((pc = "done" /\ mainlog = "complete") =>
            \A i \in FirstLinked : task[i] \in {"done", "failed"})

C18_Witness ==
    /\ pc = "done"
    /\ mainlog = "complete"
    /\ \E i, j \in FirstLinked :
          /\ status[i] = STATUS_MAP.available
          /\ status[j] = STATUS_MAP.dead

\* C19: once browser.close() has been called, no record is queued for its
\* probe or between browser.newPage and the end of page.close, also when a
\* record's job was rejected.
C19_NoProbeOnceCloseIsCalled ==
    closes > 0 => \A i \in DOMAIN task : task[i] \notin ProbeStates \cup {"queued"}

\* C20: every run of main comes to its end; at the end a browser that was
\* launched is closed and browser.close() was called once for it, and it
\* was not called when no browser was launched; it is never called twice.
C20_TerminatesWithBrowserClosedOnce ==
    /\ <>(pc = "done")
    /\ [](closes <= 1)
    /\ [](pc = "done" =>
            IF browser = "none" THEN closes = 0
            ELSE browser = "closed" /\ closes = 1)

C20_Witness ==
    /\ pc = "done"
    /\ mainlog = "caught"
    /\ AnyRejected
    /\ browser = "closed"
    /\ closes = 1
====
